---- MODULE Spec2Model ----
(***************************************************************************)
(* InvoiceChaser MCP server (apps/mcp-server/api/index.ts).                *)
(*                                                                         *)
(* JavaScript strings are modelled as sequences of one-character strings,  *)
(* so that the regular expressions of the field extractors are computed    *)
(* character by character, with the leftmost-match and backtracking        *)
(* priority of the JavaScript regular-expression engine.  A nullable value *)
(* is None (null/undefined) or Some(v).                                    *)
(***************************************************************************)
EXTENDS Integers, Sequences, FiniteSets, TLC

VARIABLES
    req,        \* the POST or GET request of the last step, NoReq if none
    resp,       \* the HTTP response sent by the last step: status and body
    engineRan,  \* the last step called toolInvoicechaserPrepare
    sseOut,     \* the writes of the last step to SSE streams
    wire,       \* all the writes of the last step, in the order made
    sessions,   \* the process-wide session registry: id -> Session
    conns,      \* the SSE responses handed to attachSse: id -> state
    clock       \* the wall clock read by Date.now() and new Date()

vars == <<req, resp, engineRan, sseOut, wire, sessions, conns, clock>>

None == <<>>
Some(v) == <<v>>

\* the element of a singleton; { F(x) : x \in {e} } computes e once for F
Only(S) == CHOOSE x \in S : TRUE

-----------------------------------------------------------------------------
(* Characters and strings                                                  *)

UpperLetters ==
    <<"A","B","C","D","E","F","G","H","I","J","K","L","M",
      "N","O","P","Q","R","S","T","U","V","W","X","Y","Z">>
LowerLetters ==
    <<"a","b","c","d","e","f","g","h","i","j","k","l","m",
      "n","o","p","q","r","s","t","u","v","w","x","y","z">>
DigitChars == <<"0","1","2","3","4","5","6","7","8","9">>

Range(s) == {s[i] : i \in DOMAIN s}

DigitSet == Range(DigitChars)
LowerSet == Range(LowerLetters)
LetterSet == Range(UpperLetters) \cup LowerSet
WordSet == LetterSet \cup DigitSet \cup {"_"}
IdSet == LetterSet \cup DigitSet \cup {"-"}
SpaceSet == {" ", "\t", "\n", "\r"}

\* \d
IsDigit(c) == c \in DigitSet
\* \w
IsWordChar(c) == c \in WordSet
\* \s (the members that occur in the inputs)
IsSpace(c) == c \in SpaceSet
\* [A-Za-z0-9-]
IsIdChar(c) == c \in IdSet

UpperChar(c) ==
    IF c \in LowerSet
    THEN UpperLetters[CHOOSE i \in DOMAIN LowerLetters : LowerLetters[i] = c]
    ELSE c

\* String.prototype.toUpperCase
toUpperCase(s) == [i \in DOMAIN s |-> UpperChar(s[i])]

DigitVal(c) == (CHOOSE i \in DOMAIN DigitChars : DigitChars[i] = c) - 1

\* the number written by a sequence of decimal digits
NumVal(s) ==
    LET f[i \in 0..Len(s)] ==
            IF i = 0 THEN 0 ELSE 10 * f[i - 1] + DigitVal(s[i])
    IN  f[Len(s)]

\* a character sequence as one string value (template-literal interpolation)
Str(s) ==
    LET f[i \in 0..Len(s)] == IF i = 0 THEN "" ELSE f[i - 1] \o s[i]
    IN  f[Len(s)]

StrOpt(o) == IF o = None THEN None ELSE Some(Str(o[1]))

\* the character at position p, "" outside the string
At(t, p) == IF p \in 1..Len(t) THEN t[p] ELSE ""

\* \b before position p
WordB(t, p) == IsWordChar(At(t, p - 1)) # IsWordChar(At(t, p))

\* the literal lit (given in upper case) matches at p under the /i flag
LitAt(t, p, lit) ==
    /\ p + Len(lit) - 1 <= Len(t)
    /\ \A k \in 1..Len(lit) : UpperChar(t[p + k - 1]) = lit[k]

\* length of the longest run of characters of a class starting at p
DigitRun(t, p) ==
    CHOOSE n \in 0..(Len(t) + 1) :
        /\ \A k \in 0..(n - 1) : IsDigit(At(t, p + k))
        /\ ~IsDigit(At(t, p + n))
SpaceRun(t, p) ==
    CHOOSE n \in 0..(Len(t) + 1) :
        /\ \A k \in 0..(n - 1) : IsSpace(At(t, p + k))
        /\ ~IsSpace(At(t, p + n))
IdRun(t, p) ==
    CHOOSE n \in 0..(Len(t) + 1) :
        /\ \A k \in 0..(n - 1) : IsIdChar(At(t, p + k))
        /\ ~IsIdChar(At(t, p + n))

Min(a, b) == IF a < b THEN a ELSE b

\* hi, hi-1, ..., lo: the order in which a greedy quantifier gives back
Desc(hi, lo) == [i \in 1..(hi - lo + 1) |-> hi - i + 1]

\* the candidates of Op at each element of s, in backtracking order
FlatMap(s, Op(_)) ==
    LET f[i \in 0..Len(s)] == IF i = 0 THEN <<>> ELSE f[i - 1] \o Op(s[i])
    IN  f[Len(s)]

Filter(s, Test(_)) == SelectSeq(s, Test)

\* the smallest start position with a match, as the engine scans the text
Leftmost(t, HasMatch(_)) ==
    IF \E i \in 1..Len(t) : HasMatch(i)
    THEN Some(CHOOSE i \in 1..Len(t) :
                 HasMatch(i) /\ \A j \in 1..(i - 1) : ~HasMatch(j))
    ELSE None

-----------------------------------------------------------------------------
(* Field extractors                                                        *)

CurrencyCodes ==
    { <<"U","S","D">>, <<"E","U","R">>, <<"G","B","P">>,
      <<"I","N","R">>, <<"A","U","D">>, <<"C","A","D">> }

\* /\b(USD|EUR|GBP|INR|AUD|CAD)\b/i
CurrencyAt(t, i) ==
    /\ WordB(t, i)
    /\ \E c \in CurrencyCodes : LitAt(t, i, c)
    /\ WordB(t, i + 3)

\* (?:\.\d{2})? at p: with the decimals first, then without
DecimalsOpt(t, p) ==
    (IF At(t, p) = "." /\ IsDigit(At(t, p + 1)) /\ IsDigit(At(t, p + 2))
     THEN <<p + 3>> ELSE <<>>) \o <<p>>

\* number of consecutive ,\d{3} groups at p
GroupRun(t, p) ==
    CHOOSE k \in 0..Len(t) :
        /\ \A g \in 0..(k - 1) :
              /\ At(t, p + 4 * g) = ","
              /\ \A d \in 1..3 : IsDigit(At(t, p + 4 * g + d))
        /\ ~(/\ At(t, p + 4 * k) = ","
             /\ \A d \in 1..3 : IsDigit(At(t, p + 4 * k + d)))

\* (?:,\d{3})* at p, most groups first
GroupsStar(t, p) ==
    LET k == GroupRun(t, p) IN [i \in 1..(k + 1) |-> p + 4 * (k - i + 1)]

\* end positions of /\b(\d{1,3}(?:,\d{3})*(?:\.\d{2})?|\d+(?:\.\d{2})?)\b/
\* started at i, in the order the engine tries them
AmountEnds(t, i) ==
    IF ~WordB(t, i) THEN <<>>
    ELSE
        LET run == DigitRun(t, i)
            Dec(p) == DecimalsOpt(t, p)
            Grp(p) == FlatMap(GroupsStar(t, p), Dec)
            Bnd(p) == WordB(t, p)
            grouped == FlatMap([k \in 1..Min(3, run) |-> i + Min(3, run) - k + 1], Grp)
            plain == FlatMap([k \in 1..run |-> i + run - k + 1], Dec)
        IN  Filter(grouped \o plain, Bnd)

parseMoney(t) ==
    LET HasCur(i) == CurrencyAt(t, i)
        HasAmt(i) == AmountEnds(t, i) # <<>>
        c == Leftmost(t, HasCur)
        a == Leftmost(t, HasAmt)
        NotComma(ch) == ch # ","
    IN  [ amount |->
              IF a = None THEN None
              ELSE Some(SelectSeq(SubSeq(t, a[1], AmountEnds(t, a[1])[1] - 1),
                                  NotComma)),
          currency |->
              IF c = None THEN None
              ELSE Some(toUpperCase(SubSeq(t, c[1], c[1] + 2))) ]

\* \s* at p, longest first
SpacesStar(t, p) == Desc(p + SpaceRun(t, p), p)

\* (?:no\.|#|number)? at p
InvoiceLabelOpt(t, p) ==
    (IF LitAt(t, p, <<"N","O",".">>) THEN <<p + 3>> ELSE <<>>)
    \o (IF At(t, p) = "#" THEN <<p + 1>> ELSE <<>>)
    \o (IF LitAt(t, p, <<"N","U","M","B","E","R">>) THEN <<p + 6>> ELSE <<>>)
    \o <<p>>

\* (?:no\.|#)? at p
InvLabelOpt(t, p) ==
    (IF LitAt(t, p, <<"N","O",".">>) THEN <<p + 3>> ELSE <<>>)
    \o (IF At(t, p) = "#" THEN <<p + 1>> ELSE <<>>)
    \o <<p>>

\* [:#]? at p
SepOpt(t, p) ==
    (IF At(t, p) \in {":", "#"} THEN <<p + 1>> ELSE <<>>) \o <<p>>

\* ([A-Za-z0-9-]+)\b at s: the <<start, end>> pairs, longest first
IdCapture(t, s) ==
    LET Bnd(e) == WordB(t, e)
        ends == Filter(Desc(s + IdRun(t, s), s + 1), Bnd)
    IN  [k \in DOMAIN ends |-> <<s, ends[k]>>]

\* matches of
\* /\b(?:invoice\s*(?:no\.|#|number)?|inv\s*(?:no\.|#)?)\s*[:#]?\s*([A-Za-z0-9-]+)\b/i
\* started at i: the <<start, end>> of group 1, in the order the engine
\* tries them
InvoiceNumberMatches(t, i) ==
    IF ~WordB(t, i) THEN <<>>
    ELSE
        LET Sp(p) == SpacesStar(t, p)
            Lab1(p) == InvoiceLabelOpt(t, p)
            Lab2(p) == InvLabelOpt(t, p)
            Sep(p) == SepOpt(t, p)
            Cap(p) == IdCapture(t, p)
            alt1 == IF LitAt(t, i, <<"I","N","V","O","I","C","E">>)
                    THEN FlatMap(Sp(i + 7), Lab1) ELSE <<>>
            alt2 == IF LitAt(t, i, <<"I","N","V">>)
                    THEN FlatMap(Sp(i + 3), Lab2) ELSE <<>>
        IN  FlatMap(FlatMap(FlatMap(FlatMap(alt1 \o alt2, Sp), Sep), Sp), Cap)

parseInvoiceNumber(t) ==
    LET Has(i) == InvoiceNumberMatches(t, i) # <<>>
        m == Leftmost(t, Has)
    IN  IF m = None THEN None
        ELSE LET g == InvoiceNumberMatches(t, m[1])[1]
             IN  Some(SubSeq(t, g[1], g[2] - 1))

\* /\b(20\d{2}-\d{2}-\d{2})\b/ matches at i
IsoDateAt(t, i) ==
    /\ WordB(t, i)
    /\ At(t, i) = "2" /\ At(t, i + 1) = "0"
    /\ IsDigit(At(t, i + 2)) /\ IsDigit(At(t, i + 3))
    /\ At(t, i + 4) = "-"
    /\ IsDigit(At(t, i + 5)) /\ IsDigit(At(t, i + 6))
    /\ At(t, i + 7) = "-"
    /\ IsDigit(At(t, i + 8)) /\ IsDigit(At(t, i + 9))
    /\ WordB(t, i + 10)

\* matches of /\b(\d{1,2})\/(\d{1,2})\/(20\d{2})\b/ started at i: the
\* <<length of group 1, length of group 2>>, in the order the engine tries
UsDateMatches(t, i) ==
    IF ~WordB(t, i) THEN <<>>
    ELSE
        LET Ok(n) ==
                LET n1 == n[1]
                    n2 == n[2]
                    y == i + n1 + n2 + 2
                IN  /\ \A k \in 0..(n1 - 1) : IsDigit(At(t, i + k))
                    /\ At(t, i + n1) = "/"
                    /\ \A k \in 0..(n2 - 1) : IsDigit(At(t, i + n1 + 1 + k))
                    /\ At(t, i + n1 + 1 + n2) = "/"
                    /\ At(t, y) = "2" /\ At(t, y + 1) = "0"
                    /\ IsDigit(At(t, y + 2)) /\ IsDigit(At(t, y + 3))
                    /\ WordB(t, y + 4)
        IN  Filter(<< <<2, 2>>, <<2, 1>>, <<1, 2>>, <<1, 1>> >>, Ok)

\* String.prototype.padStart(2, '0')
padStart2(s) == IF Len(s) >= 2 THEN s ELSE IF Len(s) = 1 THEN <<"0">> \o s ELSE <<"0", "0">>

parseDueDate(t) ==
    LET HasIso(i) == IsoDateAt(t, i)
        HasUs(i) == UsDateMatches(t, i) # <<>>
        iso == Leftmost(t, HasIso)
        us == Leftmost(t, HasUs)
    IN  IF iso # None THEN Some(SubSeq(t, iso[1], iso[1] + 9))
        ELSE IF us # None
        THEN LET i == us[1]
                 n == UsDateMatches(t, i)[1]
                 mm == padStart2(SubSeq(t, i, i + n[1] - 1))
                 dd == padStart2(SubSeq(t, i + n[1] + 1, i + n[1] + n[2]))
                 yyyy == SubSeq(t, i + n[1] + n[2] + 2, i + n[1] + n[2] + 5)
             IN  Some(yyyy \o <<"-">> \o mm \o <<"-">> \o dd)
        ELSE None

\* String.prototype.trim
trim(s) ==
    IF \A k \in DOMAIN s : IsSpace(s[k]) THEN <<>>
    ELSE LET a == CHOOSE k \in DOMAIN s :
                     ~IsSpace(s[k]) /\ \A j \in 1..(k - 1) : IsSpace(s[j])
             b == CHOOSE k \in DOMAIN s :
                     ~IsSpace(s[k]) /\ \A j \in (k + 1)..Len(s) : IsSpace(s[j])
         IN  SubSeq(s, a, b)

\* text.split(/\r?\n/)
splitLines(t) ==
    LET nls == {k \in DOMAIN t : t[k] = "\n"}
        n == Cardinality(nls)
        \* position of the k-th newline; 0 and Len(t)+1 at the two ends
        Nl(k) == IF k = 0 THEN 0
                 ELSE IF k = n + 1 THEN Len(t) + 1
                 ELSE CHOOSE p \in nls : Cardinality({q \in nls : q < p}) = k - 1
        Line(k) ==
            LET raw == SubSeq(t, Nl(k - 1) + 1, Nl(k) - 1)
            IN  IF k <= n /\ raw # <<>> /\ raw[Len(raw)] = "\r"
                THEN SubSeq(raw, 1, Len(raw) - 1) ELSE raw
    IN  [k \in 1..(n + 1) |-> Line(k)]

VendorMaxLen == 120

parseVendor(t) ==
    LET NonEmpty(l) == l # <<>>
        split == splitLines(t)
        lines == Filter([k \in DOMAIN split |-> trim(split[k])], NonEmpty)
    IN  IF lines = <<>> THEN None
        ELSE LET firstLine == lines[1]
             IN  IF LitAt(firstLine, 1, <<"I","N","V","O","I","C","E">>)
                    /\ WordB(firstLine, 8)
                 THEN None
                 ELSE Some(SubSeq(firstLine, 1, Min(VendorMaxLen, Len(firstLine))))

\* matches of /\bnet\s*(\d{1,3})\b/i started at i: the <<start, end>> of
\* group 1, in the order the engine tries them
NetMatches(t, i) ==
    IF ~(WordB(t, i) /\ LitAt(t, i, <<"N","E","T">>)) THEN <<>>
    ELSE
        LET Num(s) ==
                LET Bnd(e) == WordB(t, e)
                    ends == Filter(Desc(s + Min(3, DigitRun(t, s)), s + 1), Bnd)
                IN  [k \in DOMAIN ends |-> <<s, ends[k]>>]
        IN  FlatMap(SpacesStar(t, i + 3), Num)

\* /\bdue\s+on\s+receipt\b/i matches at i
DueOnReceiptAt(t, i) ==
    /\ WordB(t, i)
    /\ LitAt(t, i, <<"D","U","E">>)
    /\ LET s1 == SpaceRun(t, i + 3)
           on == i + 3 + s1
           s2 == SpaceRun(t, on + 2)
           rc == on + 2 + s2
       IN  /\ s1 >= 1
           /\ LitAt(t, on, <<"O","N">>)
           /\ s2 >= 1
           /\ LitAt(t, rc, <<"R","E","C","E","I","P","T">>)
           /\ WordB(t, rc + 7)

parsePaymentTerms(t) ==
    LET HasNet(i) == NetMatches(t, i) # <<>>
        m == Leftmost(t, HasNet)
    IN  IF m # None
        THEN LET g == NetMatches(t, m[1])[1]
             IN  Some(<<"N","e","t"," ">> \o SubSeq(t, g[1], g[2] - 1))
        ELSE IF \E i \in 1..Len(t) : DueOnReceiptAt(t, i)
        THEN Some(<<"D","u","e"," ","o","n"," ","r","e","c","e","i","p","t">>)
        ELSE None

-----------------------------------------------------------------------------
(* Dates.  A Date is its time value split as [day, ms]: whole days since   *)
(* 1970-01-01 UTC and milliseconds within that day, so that the time value *)
(* day * MsPerDay + ms never has to be formed in one machine integer.      *)

MsPerDay == 24 * 60 * 60 * 1000

IsLeap(y) == (y % 4 = 0 /\ y % 100 # 0) \/ y % 400 = 0

\* ECMAScript DayFromYear
DayFromYear(y) ==
    365 * (y - 1970) + ((y - 1969) \div 4) - ((y - 1901) \div 100)
        + ((y - 1601) \div 400)

DaysInMonth(y, m) ==
    IF m = 2 THEN (IF IsLeap(y) THEN 29 ELSE 28)
    ELSE IF m \in {4, 6, 9, 11} THEN 30 ELSE 31

\* ECMAScript MakeDay(y, m - 1, d): a day past the end of the month runs on
\* into the next month
MakeDay(y, m, d) ==
    LET before[k \in 1..12] ==
            IF k = 1 THEN 0 ELSE before[k - 1] + DaysInMonth(y, k - 1)
    IN  DayFromYear(y) + before[m] + d - 1

AllDigits(s, from, to) == \A k \in from..to : IsDigit(At(s, k))

\* new Date(iso) of Node's V8 for the date-time forms YYYY-MM-DD and
\* YYYY-MM-DDTHH:MM:SSZ (date-only forms are UTC midnight; month 01-12 and
\* day 01-31 are accepted, anything else is an Invalid Date); a string of
\* neither form and without a digit is an Invalid Date as well
DateParse(s) ==
    LET dateOk ==
            /\ Len(s) >= 10
            /\ AllDigits(s, 1, 4) /\ s[5] = "-" /\ AllDigits(s, 6, 7)
            /\ s[8] = "-" /\ AllDigits(s, 9, 10)
        y == NumVal(SubSeq(s, 1, 4))
        m == NumVal(SubSeq(s, 6, 7))
        d == NumVal(SubSeq(s, 9, 10))
        timeOk ==
            /\ Len(s) = 20
            /\ s[11] = "T" /\ AllDigits(s, 12, 13) /\ s[14] = ":"
            /\ AllDigits(s, 15, 16) /\ s[17] = ":" /\ AllDigits(s, 18, 19)
            /\ s[20] = "Z"
        hh == NumVal(SubSeq(s, 12, 13))
        mi == NumVal(SubSeq(s, 15, 16))
        ss == NumVal(SubSeq(s, 18, 19))
    IN  IF ~dateOk \/ m \notin 1..12 \/ d \notin 1..31 THEN None
        ELSE IF Len(s) = 10 THEN Some([day |-> MakeDay(y, m, d), ms |-> 0])
        ELSE IF timeOk /\ hh <= 23 /\ mi <= 59 /\ ss <= 59
        THEN Some([day |-> MakeDay(y, m, d),
                   ms |-> ((hh * 60 + mi) * 60 + ss) * 1000])
        ELSE None

safeDateFromIso(iso) == DateParse(iso)

\* daysBetween with the two dates taken in the wrong order
daysBetween_swapped(earlier, later) ==
    (earlier.day - later.day) + ((earlier.ms - later.ms) \div MsPerDay)

\* Math.floor((later - earlier) / MsPerDay), with
\* later - earlier = (later.day - earlier.day) * MsPerDay + (later.ms - earlier.ms)
daysBetween(earlier, later) ==
    (later.day - earlier.day) + ((later.ms - earlier.ms) \div MsPerDay)

\* the decimal digits of a number (template-literal interpolation)
NumChars(n) ==
    LET f[k \in 0..n] ==
            IF k < 10 THEN <<DigitChars[k + 1]>>
            ELSE f[k \div 10] \o <<DigitChars[(k % 10) + 1]>>
    IN  f[n]

-----------------------------------------------------------------------------
(* Templates.  A text built by a template literal is the sequence of its   *)
(* parts: the fixed pieces are strings and every interpolated value is a   *)
(* character sequence.  The apostrophes of the fixed pieces are written in *)
(* ASCII.                                                                  *)

Chars_there == <<"t","h","e","r","e">>
Chars_InvoiceSp == <<"I","n","v","o","i","c","e"," ">>
Chars_invoiceSp == <<"i","n","v","o","i","c","e"," ">>
Chars_theInvoice == <<"t","h","e"," ","i","n","v","o","i","c","e">>
Chars_anInvoice == <<"a","n"," ","i","n","v","o","i","c","e">>
Chars_amountPh == <<"[","a","m","o","u","n","t","]">>
Chars_dueOn == <<"d","u","e"," ","o","n"," ">>
Chars_nowDue == <<"n","o","w"," ","d","u","e">>
Chars_unknown == <<"u","n","k","n","o","w","n">>
Chars_daysOverdueSuffix == <<" ","d","a","y","s"," ","o","v","e","r","d","u","e",")">>
Chars_daysOverdueLabel == <<" ","(","d","a","y","s"," ","o","v","e","r","d","u","e",":"," ">>
Chars_USD == <<"U","S","D">>

\* a value is truthy: neither null nor the empty string
Truthy(o) == o # None /\ o[1] # <<>>

\* OverdueSuffix appended from 0 days on
OverdueSuffix_fromZero(daysOverdue) ==
    IF daysOverdue # None /\ daysOverdue[1] >= 0
    THEN <<" ", "(">> \o NumChars(daysOverdue[1]) \o Chars_daysOverdueSuffix
    ELSE <<>>

\* const overdue of buildEmails
OverdueSuffix(daysOverdue) ==
    IF daysOverdue # None /\ daysOverdue[1] > 0
    THEN <<" ", "(">> \o NumChars(daysOverdue[1]) \o Chars_daysOverdueSuffix
    ELSE <<>>

buildEmails(opts) ==
    LET vendor == IF opts.vendor # None THEN opts.vendor[1] ELSE Chars_there
        inv == IF Truthy(opts.invoiceNumber)
               THEN Chars_InvoiceSp \o opts.invoiceNumber[1]
               ELSE Chars_theInvoice
        amt == IF Truthy(opts.amount)
               THEN opts.currency \o <<" ">> \o opts.amount[1]
               ELSE opts.currency \o <<" ">> \o Chars_amountPh
        due == IF Truthy(opts.dueDate)
               THEN Chars_dueOn \o opts.dueDate[1]
               ELSE Chars_nowDue
        overdue == OverdueSuffix(opts.daysOverdue)
    IN  [ friendly |->
            << "Subject: ", inv, " - Payment reminder\n\nHi ", vendor,
               ",\n\nHope you're doing well. Just a quick reminder that ",
               inv, " for ", amt, " was ", due, overdue,
               ".\n\nCould you confirm the payment status and the expected payment date? If you need anything from my side (PO, banking details, or a copy of the invoice), I'm happy to help.\n\nThanks so much,\n[Your Name]\n" >>,
          neutral |->
            << "Subject: ", inv, " - Payment reminder\n\nHi ", vendor,
               ",\n\nFollowing up on ", inv, " for ", amt, ", which was ",
               due, overdue,
               ".\n\nPlease share an update on payment status and the planned payment date.\n\nBest regards,\n[Your Name]\n" >>,
          firm |->
            << "Subject: ", inv, " - Overdue payment\n\nHi ", vendor,
               ",\n\n", inv, " for ", amt, " is ", due, overdue,
               ".\n\nPlease arrange payment immediately or confirm the exact payment date today. If payment has already been sent, please reply with the remittance details.\n\nRegards,\n[Your Name]\n" >> ]

Flag_invoiceNumber == "Invoice number not detected."
Flag_amount == "Invoice amount not detected."
Flag_dueDate == "Due date not detected."
Flag_paymentTerms == "Payment terms not detected."

nextSteps ==
    << "Send the friendly email today if you have an ongoing relationship.",
       "If no response within 2 business days, send the neutral follow-up.",
       "If still unpaid after 5 business days, send the firm email and request a payment date.",
       "If overdue continues, consider pausing service and escalating per contract terms." >>

\* Currency with the detected currency taken before the argument
Currency_detectedFirst(argCurrency, detected) ==
    toUpperCase(IF detected # None THEN detected[1]
                ELSE IF argCurrency # None THEN argCurrency[1]
                ELSE Chars_USD)

\* (args.currency ?? money.currency ?? 'USD').toUpperCase()
Currency(argCurrency, detected) ==
    toUpperCase(IF argCurrency # None THEN argCurrency[1]
                ELSE IF detected # None THEN detected[1]
                ELSE Chars_USD)

\* Today read from the clock whatever args.today is
Today_clockWins(argToday, now) == Some(now)

\* Today falling back to the clock when args.today does not parse
Today_fallsBackToClock(argToday, now) ==
    IF Truthy(argToday) /\ safeDateFromIso(argToday[1]) # None
    THEN safeDateFromIso(argToday[1])
    ELSE Some(now)

\* args.today ? safeDateFromIso(args.today) : new Date()
Today(argToday, now) ==
    IF Truthy(argToday) THEN safeDateFromIso(argToday[1]) ELSE Some(now)

\* dueDate ? safeDateFromIso(dueDate) : null
Due(dueDate) ==
    IF Truthy(dueDate) THEN safeDateFromIso(dueDate[1]) ELSE None

\* DaysOverdue starting from 0 instead of null
DaysOverdue_zeroWithoutDue(today, due) ==
    IF today # None /\ due # None
    THEN LET d == daysBetween(due[1], today[1])
         IN  Some(IF d > 0 THEN d ELSE 0)
    ELSE Some(0)

DaysOverdue(today, due) ==
    IF today # None /\ due # None
    THEN LET d == daysBetween(due[1], today[1])
         IN  Some(IF d > 0 THEN d ELSE 0)
    ELSE None

Summary(invoiceNumber, amount, currency, dueDate, daysOverdue) ==
    << << "Prepared follow-up emails for ",
          IF Truthy(invoiceNumber)
          THEN Chars_invoiceSp \o invoiceNumber[1] ELSE Chars_anInvoice,
          "." >>,
       << "Detected amount: ",
          IF Truthy(amount)
          THEN currency \o <<" ">> \o amount[1] ELSE Chars_unknown,
          "." >>,
       << "Due date: ",
          IF dueDate # None THEN dueDate[1] ELSE Chars_unknown,
          IF daysOverdue # None
          THEN Chars_daysOverdueLabel \o NumChars(daysOverdue[1]) \o <<")">>
          ELSE <<>>,
          "." >> >>

\* RedFlags with the amount tested before the invoice number
RedFlags_amountFirst(invoiceNumber, amount, dueDate, paymentTerms) ==
    (IF ~Truthy(amount) THEN <<Flag_amount>> ELSE <<>>)
    \o (IF ~Truthy(invoiceNumber) THEN <<Flag_invoiceNumber>> ELSE <<>>)
    \o (IF ~Truthy(dueDate) THEN <<Flag_dueDate>> ELSE <<>>)
    \o (IF ~Truthy(paymentTerms) THEN <<Flag_paymentTerms>> ELSE <<>>)

RedFlags(invoiceNumber, amount, dueDate, paymentTerms) ==
    (IF ~Truthy(invoiceNumber) THEN <<Flag_invoiceNumber>> ELSE <<>>)
    \o (IF ~Truthy(amount) THEN <<Flag_amount>> ELSE <<>>)
    \o (IF ~Truthy(dueDate) THEN <<Flag_dueDate>> ELSE <<>>)
    \o (IF ~Truthy(paymentTerms) THEN <<Flag_paymentTerms>> ELSE <<>>)

\* PrepareResult returning only the email of the tone asked for
PrepareResult_toneFilter(args, now, vendor, invoiceNumber, dueDate, paymentTerms, money) ==
    LET currency == Currency(args.currency, money.currency)
        amount == money.amount
        daysOverdue == DaysOverdue(Today(args.today, now), Due(dueDate))
        emails ==
            buildEmails([ vendor |-> vendor, invoiceNumber |-> invoiceNumber,
                          amount |-> amount, currency |-> currency,
                          dueDate |-> dueDate, daysOverdue |-> daysOverdue ])
    IN  [ summary |-> Summary(invoiceNumber, amount, currency, dueDate, daysOverdue),
          extracted |->
              [ vendor |-> vendor, amount |-> amount, currency |-> currency,
                invoiceNumber |-> invoiceNumber, dueDate |-> dueDate,
                daysOverdue |-> daysOverdue, paymentTerms |-> paymentTerms ],
          followUpEmails |->
              IF args.tone = None THEN emails
              ELSE [k \in {Str(args.tone[1])} |-> emails[k]],
          nextSteps |-> nextSteps,
          redFlags |-> RedFlags(invoiceNumber, amount, dueDate, paymentTerms) ]

\* toolInvoicechaserPrepare once the extractors have run
PrepareResult(args, now, vendor, invoiceNumber, dueDate, paymentTerms, money) ==
    LET currency == Currency(args.currency, money.currency)
        amount == money.amount
        daysOverdue == DaysOverdue(Today(args.today, now), Due(dueDate))
    IN  [ summary |-> Summary(invoiceNumber, amount, currency, dueDate, daysOverdue),
          extracted |->
              [ vendor |-> vendor, amount |-> amount, currency |-> currency,
                invoiceNumber |-> invoiceNumber, dueDate |-> dueDate,
                daysOverdue |-> daysOverdue, paymentTerms |-> paymentTerms ],
          followUpEmails |->
              buildEmails([ vendor |-> vendor, invoiceNumber |-> invoiceNumber,
                            amount |-> amount, currency |-> currency,
                            dueDate |-> dueDate, daysOverdue |-> daysOverdue ]),
          nextSteps |-> nextSteps,
          redFlags |-> RedFlags(invoiceNumber, amount, dueDate, paymentTerms) ]

\* args: the parsed arguments [invoiceText, currency, tone, today], the
\* optional ones None when not given; now: the Date that new Date() returns
toolInvoicechaserPrepare(args, now) ==
    Only({ PrepareResult(args, now, vendor, invoiceNumber, dueDate,
                         paymentTerms, money) :
             vendor \in {parseVendor(args.invoiceText[1])},
             invoiceNumber \in {parseInvoiceNumber(args.invoiceText[1])},
             dueDate \in {parseDueDate(args.invoiceText[1])},
             paymentTerms \in {parsePaymentTerms(args.invoiceText[1])},
             money \in {parseMoney(args.invoiceText[1])} })

-----------------------------------------------------------------------------
(* JSON-RPC over HTTP                                                      *)

Tone_friendly == <<"f","r","i","e","n","d","l","y">>
Tone_neutral == <<"n","e","u","t","r","a","l">>
Tone_firm == <<"f","i","r","m">>
ToneEnum == {Tone_friendly, Tone_neutral, Tone_firm}

\* invoicechaserPrepareArgsSchema with tone declared as any string
invoicechaserPrepareArgsSchema_anyTone(a) ==
    (IF a.invoiceText = None \/ Len(a.invoiceText[1]) < 1
     THEN <<"invoiceText">> ELSE <<>>)
    \o (IF a.currency # None /\ Len(a.currency[1]) < 1
        THEN <<"currency">> ELSE <<>>)
    \o (IF a.today # None /\ Len(a.today[1]) < 1
        THEN <<"today">> ELSE <<>>)

\* the paths of the issues that invoicechaserPrepareArgsSchema.safeParse
\* reports for the arguments a, in the order of the schema; success is <<>>
invoicechaserPrepareArgsSchema(a) ==
    (IF a.invoiceText = None \/ Len(a.invoiceText[1]) < 1
     THEN <<"invoiceText">> ELSE <<>>)
    \o (IF a.currency # None /\ Len(a.currency[1]) < 1
        THEN <<"currency">> ELSE <<>>)
    \o (IF a.tone # None /\ a.tone[1] \notin ToneEnum
        THEN <<"tone">> ELSE <<>>)
    \o (IF a.today # None /\ Len(a.today[1]) < 1
        THEN <<"today">> ELSE <<>>)

\* parsed.data.arguments ?? {}
NoArguments ==
    [invoiceText |-> None, currency |-> None, tone |-> None, today |-> None]

jsonRpcResult(id, result) == [jsonrpc |-> "2.0", id |-> id, result |-> result]

jsonRpcError(id, code, message) ==
    [jsonrpc |-> "2.0", id |-> id, error |-> [code |-> code, message |-> message]]

mcpToolsListResult ==
    [tools |-> << [name |-> "invoicechaser_prepare",
                   required |-> <<"invoiceText">>] >>]

\* randomUUID(): an identifier that no session has
FreshSessionId(reg) == CHOOSE n \in 1..(Cardinality(DOMAIN reg) + 1) : n \notin DOMAIN reg

\* the Date of the wall clock: the clock counts half days from noon of
\* 2025-12-14
ClockStep == MsPerDay \div 2
ClockDate(c) ==
    [day |-> MakeDay(2025, 12, 14) + ((c + 1) \div 2),
     ms |-> ((c + 1) % 2) * ClockStep]

\* handleMcpRequest(body): the response, the registry after the call and
\* whether the engine ran
handleMcpRequest(body, reg, now) ==
    LET id == body.id
        keep == [response |-> None, sessions |-> reg, ran |-> FALSE]
    IN  IF body.method = None
        THEN [keep EXCEPT !.response =
                 jsonRpcError(id, -32600, "Invalid Request: missing method")]
        ELSE IF body.method[1] = "initialize"
        THEN LET sessionId == FreshSessionId(reg)
                 session == [id |-> sessionId, createdAtIso |-> now,
                             lastSeenMs |-> now, sse |-> None]
             IN  [ response |->
                       jsonRpcResult(id,
                           [protocolVersion |-> "2025-03-26",
                            serverInfo |-> [name |-> "InvoiceChaser",
                                            version |-> "0.1.0"],
                            sessionId |-> sessionId]),
                   sessions |->
                       [k \in DOMAIN reg \cup {sessionId} |->
                           IF k = sessionId THEN session ELSE reg[k]],
                   ran |-> FALSE ]
        ELSE IF body.method[1] = "tools/list"
        THEN [keep EXCEPT !.response = jsonRpcResult(id, mcpToolsListResult)]
        ELSE IF body.method[1] = "tools/call"
        THEN LET params == IF body.params = None
                           THEN [name |-> None, arguments |-> None]
                           ELSE body.params[1]
             IN  IF params.name = None
                 THEN [keep EXCEPT !.response =
                          jsonRpcError(id, -32602, "Invalid params")]
                 ELSE IF params.name[1] # "invoicechaser_prepare"
                 THEN [keep EXCEPT !.response =
                          jsonRpcError(id, -32601,
                                       "Unknown tool: " \o params.name[1])]
                 ELSE LET args == IF params.arguments = None THEN NoArguments
                                  ELSE params.arguments[1]
                          issues == invoicechaserPrepareArgsSchema(args)
                      IN  IF issues # <<>>
                          THEN [keep EXCEPT !.response =
                                   jsonRpcError(id, -32602, issues)]
                          ELSE Only({ [ response |->
                                            jsonRpcResult(id,
                                                [content |->
                                                     << [type |-> "text",
                                                         text |-> [json |-> toolResult]] >>,
                                                 structuredContent |-> toolResult]),
                                        sessions |-> reg,
                                        ran |-> TRUE ] :
                                      toolResult \in
                                        {toolInvoicechaserPrepare(args, ClockDate(now))} })
        ELSE [keep EXCEPT !.response =
                 jsonRpcError(id, -32601, "Method not found: " \o body.method[1])]

NoReq == [kind |-> "none"]
NoResp == [status |-> 0, body |-> None]

\* a write of res.end / sendJson to the response of the request
Response(status) == [kind |-> "response", status |-> status]

\* a write of sseWrite to the SSE response c
Event(c, event, id) == [conn |-> c, event |-> event, id |-> id]

\* Touch updating lastSeenMs of every session
Touch_everySession(reg, sid, now) ==
    IF sid # None /\ sid[1] \in DOMAIN reg
    THEN [k \in DOMAIN reg |-> [reg[k] EXCEPT !.lastSeenMs = now]]
    ELSE reg

\* handler, POST: session.lastSeenMs = Date.now() for the session that the
\* MCP-Session-Id header names
Touch(reg, sid, now) ==
    IF sid # None /\ sid[1] \in DOMAIN reg
    THEN [reg EXCEPT ![sid[1]].lastSeenMs = now]
    ELSE reg

\* Notification written to every attached stream
Notification_broadcast(reg, cs, sid, id) ==
    IF sid # None /\ sid[1] \in DOMAIN reg
    THEN LET f[i \in 0..Len(cs)] ==
                 IF i = 0 THEN <<>>
                 ELSE IF reg[cs[i].session].sse = Some(i) /\ ~cs[i].writableEnded
                 THEN Append(f[i - 1], Event(i, "mcp:message", id))
                 ELSE f[i - 1]
         IN  f[Len(cs)]
    ELSE <<>>

\* handler, POST: the mcp:message event for the stream attached to the
\* session that the MCP-Session-Id header names
Notification(reg, cs, sid, id) ==
    IF sid # None /\ sid[1] \in DOMAIN reg /\ reg[sid[1]].sse # None
          /\ ~cs[reg[sid[1]].sse[1]].writableEnded
    THEN << Event(reg[sid[1]].sse[1], "mcp:message", id) >>
    ELSE <<>>

\* handler, POST: r is the request, [sid: the MCP-Session-Id header, body]
Post(r) ==
    /\ req' = r
    /\ IF r.body.kind = "bad"
       THEN \* JSON.parse threw in readJson: the catch block answers
            /\ resp' = [status |-> 400,
                        body |-> jsonRpcError(None, -32700, "Parse error")]
            /\ engineRan' = FALSE
            /\ sseOut' = <<>>
            /\ wire' = << Response(400) >>
            /\ UNCHANGED <<sessions, conns>>
       ELSE LET body == IF r.body.kind = "null"
                        THEN [id |-> None, method |-> None, params |-> None]
                        ELSE [id |-> r.body.id, method |-> r.body.method,
                              params |-> r.body.params]
            IN  \E h \in {handleMcpRequest(body, sessions, clock)} :
                  /\ engineRan' = h.ran
                  /\ sessions' = Touch(h.sessions, r.sid, clock)
                  /\ sseOut' = Notification(h.sessions, conns, r.sid, body.id)
                  /\ resp' = [status |-> 200, body |-> h.response]
                  /\ wire' = sseOut' \o << Response(200) >>
                  /\ UNCHANGED conns
    /\ UNCHANGED clock

\* handler, OPTIONS
HandleOptions ==
    /\ resp' = [status |-> 204, body |-> None]
    /\ sseOut' = <<>>
    /\ wire' = << Response(204) >>
    /\ UNCHANGED <<sessions, conns, clock>>
    /\ req' = NoReq /\ engineRan' = FALSE

\* handler, a method other than OPTIONS, GET and POST
HandleOtherMethod ==
    /\ resp' = [status |-> 405,
                body |-> [ok |-> FALSE, error |-> "Method Not Allowed"]]
    /\ sseOut' = <<>>
    /\ wire' = << Response(405) >>
    /\ UNCHANGED <<sessions, conns, clock>>
    /\ req' = NoReq /\ engineRan' = FALSE

\* attachSse without the test of the Accept header
AttachSse_anyAccept(accept, sid) ==
    /\ IF sid = None
       THEN /\ resp' = [status |-> 406,
                        body |-> [ok |-> FALSE,
                                  error |-> "GET /api requires MCP-Session-Id"]]
            /\ sseOut' = <<>>
            /\ wire' = << Response(406) >>
            /\ UNCHANGED <<sessions, conns>>
       ELSE IF sid[1] \notin DOMAIN sessions
       THEN /\ resp' = [status |-> 406,
                        body |-> [ok |-> FALSE, error |-> "Unknown MCP session"]]
            /\ sseOut' = <<>>
            /\ wire' = << Response(406) >>
            /\ UNCHANGED <<sessions, conns>>
       ELSE LET c == Len(conns) + 1
            IN  /\ sessions' = [sessions EXCEPT ![sid[1]].lastSeenMs = clock,
                                                ![sid[1]].sse = Some(c)]
                /\ conns' = Append(conns,
                                [session |-> sid[1], open |-> TRUE,
                                 writableEnded |-> FALSE, heartbeat |-> TRUE,
                                 cleanups |-> 0])
                /\ sseOut' = << Event(c, "mcp:connected", None) >>
                /\ wire' = sseOut'
                /\ resp' = [status |-> 200, body |-> [stream |-> c]]
    /\ req' = [kind |-> "get", accept |-> accept, sid |-> sid]
    /\ engineRan' = FALSE
    /\ UNCHANGED clock

\* handler, GET: attachSse
\* accept: the Accept header contains text/event-stream; sid: MCP-Session-Id
AttachSse(accept, sid) ==
    /\ IF ~accept
       THEN /\ resp' = [status |-> 406,
                        body |-> [ok |-> FALSE,
                                  error |-> "GET /api requires Accept: text/event-stream"]]
            /\ sseOut' = <<>>
            /\ wire' = << Response(406) >>
            /\ UNCHANGED <<sessions, conns>>
       ELSE IF sid = None
       THEN /\ resp' = [status |-> 406,
                        body |-> [ok |-> FALSE,
                                  error |-> "GET /api requires MCP-Session-Id"]]
            /\ sseOut' = <<>>
            /\ wire' = << Response(406) >>
            /\ UNCHANGED <<sessions, conns>>
       ELSE IF sid[1] \notin DOMAIN sessions
       THEN /\ resp' = [status |-> 406,
                        body |-> [ok |-> FALSE, error |-> "Unknown MCP session"]]
            /\ sseOut' = <<>>
            /\ wire' = << Response(406) >>
            /\ UNCHANGED <<sessions, conns>>
       ELSE LET c == Len(conns) + 1
            IN  /\ sessions' = [sessions EXCEPT ![sid[1]].lastSeenMs = clock,
                                                ![sid[1]].sse = Some(c)]
                /\ conns' = Append(conns,
                                [session |-> sid[1], open |-> TRUE,
                                 writableEnded |-> FALSE, heartbeat |-> TRUE,
                                 cleanups |-> 0])
                /\ sseOut' = << Event(c, "mcp:connected", None) >>
                /\ wire' = sseOut'
                /\ resp' = [status |-> 200, body |-> [stream |-> c]]
    /\ req' = [kind |-> "get", accept |-> accept, sid |-> sid]
    /\ engineRan' = FALSE
    /\ UNCHANGED clock

\* the client or the network ends the connection of an SSE stream
Disconnect(c) ==
    /\ conns[c].open
    /\ conns' = [conns EXCEPT ![c].open = FALSE]
    /\ sseOut' = <<>> /\ wire' = <<>>
    /\ req' = NoReq /\ resp' = NoResp /\ engineRan' = FALSE
    /\ UNCHANGED <<sessions, clock>>

\* number of events that call cleanup: req close, req aborted, res close
CleanupEvents == 3

\* cleanup clearing the attachment of the session whichever stream it is
Cleanup_detachesAny(c) ==
    /\ ~conns[c].open
    /\ conns[c].cleanups < CleanupEvents
    /\ conns' = [conns EXCEPT ![c].cleanups = @ + 1, ![c].heartbeat = FALSE]
    /\ sessions' =
           LET s == conns[c].session
           IN  IF s \in DOMAIN sessions /\ sessions[s].sse # None
               THEN [sessions EXCEPT ![s].sse = None, ![s].lastSeenMs = clock]
               ELSE sessions
    /\ sseOut' = <<>> /\ wire' = <<>>
    /\ req' = NoReq /\ resp' = NoResp /\ engineRan' = FALSE
    /\ UNCHANGED clock

\* attachSse.cleanup of the stream c, called by one of its close events
Cleanup(c) ==
    /\ ~conns[c].open
    /\ conns[c].cleanups < CleanupEvents
    /\ conns' = [conns EXCEPT ![c].cleanups = @ + 1, ![c].heartbeat = FALSE]
    /\ sessions' =
           LET s == conns[c].session
           IN  IF s \in DOMAIN sessions /\ sessions[s].sse = Some(c)
               THEN [sessions EXCEPT ![s].sse = None, ![s].lastSeenMs = clock]
               ELSE sessions
    /\ sseOut' = <<>> /\ wire' = <<>>
    /\ req' = NoReq /\ resp' = NoResp /\ engineRan' = FALSE
    /\ UNCHANGED clock

\* the setInterval callback of attachSse
Heartbeat(c) ==
    /\ conns[c].heartbeat
    /\ sseOut' = << Event(c, "heartbeat", None) >>
    /\ wire' = sseOut'
    /\ req' = NoReq /\ resp' = NoResp /\ engineRan' = FALSE
    /\ UNCHANGED <<sessions, conns, clock>>

-----------------------------------------------------------------------------
(* Inputs                                                                  *)

LineVendor ==
    <<"A","c","m","e"," ","D","e","s","i","g","n"," ","S","t","u","d","i","o">>  \* Acme Design Studio
LineInvoice ==
    <<"I","N","V","O","I","C","E"," ","#","I","N","V","-","1","0","4","2">>  \* INVOICE #INV-1042
LineDueIso ==
    <<"D","u","e"," ","D","a","t","e",":"," ","2","0","2","5","-","1","1","-","3","0">>  \* Due Date: 2025-11-30
LineDueFuture ==
    <<"D","u","e"," ","D","a","t","e",":"," ","2","0","2","5","-","1","2","-","0","1">>  \* Due Date: 2025-12-01
LineDueUs ==
    <<"D","u","e",":"," ","2","/","2","8","/","2","0","2","4">>  \* Due: 2/28/2024
LineDueBadIso ==
    <<"D","u","e"," ","D","a","t","e",":"," ","2","0","2","5","-","1","3","-","4","5">>  \* Due Date: 2025-13-45
LineDueBadUs ==
    <<"D","u","e",":"," ","1","3","/","4","5","/","2","0","2","5">>  \* Due: 13/45/2025
LineTotalUsd ==
    <<"T","o","t","a","l"," ","D","u","e",":"," ","U","S","D"," ","2",",","4","5","0",".","0","0">>  \* Total Due: USD 2,450.00
LineTotalEur ==
    <<"T","o","t","a","l",":"," ","e","u","r"," ","2","4","5","0">>  \* Total: eur 2450
LineTerms ==
    <<"P","a","y","m","e","n","t"," ","t","e","r","m","s",":"," ","N","e","t"," ","1","5">>  \* Payment terms: Net 15
LineReceipt ==
    <<"D","u","e"," ","o","n"," ","r","e","c","e","i","p","t">>  \* Due on receipt
LineBlank ==
    <<" "," ">>  \*   
TodayA ==
    <<"2","0","2","5","-","1","2","-","1","5">>  \* 2025-12-15
TodayC ==
    <<"2","0","2","5","-","1","1","-","2","0">>  \* 2025-11-20
TodayLeap ==
    <<"2","0","2","4","-","0","3","-","0","1">>  \* 2024-03-01
TodayNoon ==
    <<"2","0","2","5","-","1","2","-","1","5","T","1","2",":","0","0",":","0","0","Z">>  \* 2025-12-15T12:00:00Z
TodayBad ==
    <<"s","o","o","n">>  \* soon
CurEUR ==
    <<"E","U","R">>  \* EUR
CurLong ==
    <<"e","u","r","o">>  \* euro

NL == <<"\n">>

\* the lines joined by newlines, the empty ones left out
JoinLines(ls) ==
    LET f[i \in 0..Len(ls)] ==
            IF i = 0 THEN <<>>
            ELSE IF ls[i] = <<>> THEN f[i - 1]
            ELSE IF f[i - 1] = <<>> THEN ls[i]
            ELSE f[i - 1] \o NL \o ls[i]
    IN  f[Len(ls)]

HeaderLines == {LineBlank, LineVendor \o NL \o LineReceipt, LineInvoice}
DueLines == {<<>>, LineDueIso, LineDueFuture, LineDueUs, LineDueBadIso, LineDueBadUs}
TotalLines == {<<>>, LineTotalUsd, LineTotalEur}
TermsLines == {<<>>, LineTerms}

\* invoice texts: a header line, then optionally a due-date line, a total
\* line and a payment-terms line
InvoiceTexts ==
    { JoinLines(<<h, d, a, p>>) :
        h \in HeaderLines, d \in DueLines, a \in TotalLines, p \in TermsLines }

Currencies == {None, Some(CurEUR), Some(CurLong)}
Tones == {None, Some(Tone_friendly), Some(Tone_neutral), Some(Tone_firm)}
Todays == {None, Some(TodayA), Some(TodayC), Some(TodayLeap), Some(TodayNoon),
           Some(TodayBad)}

\* arguments that the schema accepts
AcceptedArgs ==
    { [invoiceText |-> Some(t), currency |-> c, tone |-> o, today |-> d] :
        t \in InvoiceTexts, c \in Currencies, o \in Tones, d \in Todays }

ToolsCall(id, name, arguments) ==
    [kind |-> "obj", id |-> id, method |-> Some("tools/call"),
     params |-> Some([name |-> name, arguments |-> arguments])]

Method(id, m) == [kind |-> "obj", id |-> id, method |-> m, params |-> None]

TextA == JoinLines(<<LineInvoice, LineDueIso, LineTotalUsd, LineTerms>>)

ArgsA == [invoiceText |-> Some(LineTerms), currency |-> None, tone |-> None,
          today |-> Some(TodayA)]
ArgsNow == [invoiceText |-> Some(LineDueIso), currency |-> Some(CurEUR),
            tone |-> Some(Tone_firm), today |-> None]
ArgsDated == [invoiceText |-> Some(LineDueIso), currency |-> None,
              tone |-> None, today |-> Some(TodayA)]

\* arguments that violate the schema
RejectedArgs ==
    { NoArguments,
      [ArgsA EXCEPT !.invoiceText = Some(<<>>)],
      [ArgsA EXCEPT !.currency = Some(<<>>)],
      [ArgsA EXCEPT !.today = Some(<<>>)],
      [ArgsA EXCEPT !.tone = Some(<<"a","n","g","r","y">>)],
      [ArgsA EXCEPT !.tone = Some(<<>>), !.today = Some(<<>>)] }

\* bodies of POST /api other than an accepted tools/call
OtherBodies ==
    { [kind |-> "bad"], [kind |-> "null"],
      Method(Some(1), None),
      Method(Some(1), Some("initialize")),
      Method(None, Some("tools/list")),
      Method(Some(1), Some("resources/list")),
      [kind |-> "obj", id |-> Some(1), method |-> Some("tools/call"),
       params |-> None],
      ToolsCall(Some(1), None, Some(ArgsA)),
      ToolsCall(Some(1), Some("other_tool"), Some(ArgsA)),
      ToolsCall(Some(1), Some("invoicechaser_prepare"), None) }
    \cup { ToolsCall(None, Some("invoicechaser_prepare"), Some(a)) :
             a \in RejectedArgs }

\* bodies of POST /api sent to the running server
Bodies ==
    { [kind |-> "bad"],
      Method(Some(1), Some("initialize")),
      Method(Some(1), Some("tools/list")),
      ToolsCall(Some(1), Some("invoicechaser_prepare"), Some(ArgsNow)),
      ToolsCall(Some(1), Some("invoicechaser_prepare"), Some(ArgsDated)),
      ToolsCall(Some(1), Some("invoicechaser_prepare"),
                Some([ArgsNow EXCEPT !.invoiceText = Some(<<>>)])) }

-----------------------------------------------------------------------------
(* Specifications                                                          *)

MaxSessions == 2
MaxConns == 2
MaxClock == 1

\* time passes
Tick ==
    /\ clock < MaxClock
    /\ clock' = clock + 1
    /\ sseOut' = <<>> /\ wire' = <<>>
    /\ req' = NoReq /\ resp' = NoResp /\ engineRan' = FALSE
    /\ UNCHANGED <<sessions, conns>>

SessionHeaders == {None} \cup {Some(k) : k \in 1..MaxSessions}

Init ==
    /\ req = NoReq
    /\ resp = NoResp
    /\ engineRan = FALSE
    /\ sseOut = <<>>
    /\ wire = <<>>
    /\ sessions = <<>>
    /\ conns = <<>>
    /\ clock = 0

Next ==
    \/ \E b \in Bodies, sid \in SessionHeaders :
          /\ b.kind = "obj" /\ b.method = Some("initialize")
                => Cardinality(DOMAIN sessions) < MaxSessions
          /\ Post([kind |-> "post", sid |-> sid, body |-> b])
    \/ HandleOptions
    \/ HandleOtherMethod
    \/ \E accept \in BOOLEAN, sid \in SessionHeaders :
          /\ Len(conns) < MaxConns
          /\ AttachSse(accept, sid)
    \/ \E c \in DOMAIN conns : Disconnect(c)
    \/ \E c \in DOMAIN conns : Cleanup(c)
    \/ \E c \in DOMAIN conns : Heartbeat(c)
    \/ Tick

Spec == Init /\ [][Next]_vars

\* one POST /api without a session, answered: a tools/call of
\* invoicechaser_prepare with accepted arguments, or another body
PrepInit ==
    /\ \/ \E a \in AcceptedArgs :
             /\ req = [kind |-> "post", sid |-> None,
                       body |-> ToolsCall(Some(1), Some("invoicechaser_prepare"),
                                          Some(a))]
             \* new Date() is read only by a call without today
             /\ clock \in IF a.today = None THEN 0..MaxClock ELSE {0}
       \/ \E b \in OtherBodies :
             /\ req = [kind |-> "post", sid |-> None, body |-> b]
             /\ clock = 0
    /\ resp = NoResp
    /\ engineRan = FALSE
    /\ sseOut = <<>>
    /\ wire = <<>>
    /\ sessions = <<>>
    /\ conns = <<>>

PrepNext == resp = NoResp /\ Post(req)

PrepSpec == PrepInit /\ [][PrepNext]_vars

-----------------------------------------------------------------------------
(* Observations of a tools/call of invoicechaser_prepare                   *)

\* the last step was a POST of tools/call for invoicechaser_prepare
IsPrepareCall ==
    /\ req.kind = "post"
    /\ req.body.kind = "obj"
    /\ req.body.method = Some("tools/call")
    /\ req.body.params # None
    /\ req.body.params[1].name = Some("invoicechaser_prepare")

\* its arguments
CallArgs ==
    IF req.body.params[1].arguments = None THEN NoArguments
    ELSE req.body.params[1].arguments[1]

\* it has been answered
Answered == IsPrepareCall /\ resp # NoResp

\* it has been answered with a result
Prepared ==
    /\ Answered
    /\ resp.status = 200
    /\ "result" \in DOMAIN resp.body

\* the result of prepare
Out == resp.body.result.structuredContent

\* s is YYYY-MM-DD and names a day of the calendar
IsCalendarDate(s) ==
    /\ Len(s) = 10
    /\ AllDigits(s, 1, 4) /\ s[5] = "-" /\ AllDigits(s, 6, 7)
    /\ s[8] = "-" /\ AllDigits(s, 9, 10)
    /\ NumVal(SubSeq(s, 6, 7)) \in 1..12
    /\ NumVal(SubSeq(s, 9, 10))
           \in 1..DaysInMonth(NumVal(SubSeq(s, 1, 4)), NumVal(SubSeq(s, 6, 7)))

YMD(s) == <<NumVal(SubSeq(s, 1, 4)), NumVal(SubSeq(s, 6, 7)), NumVal(SubSeq(s, 9, 10))>>

\* the day a is before the day b
DayBefore(a, b) ==
    \/ a[1] < b[1]
    \/ a[1] = b[1] /\ a[2] < b[2]
    \/ a[1] = b[1] /\ a[2] = b[2] /\ a[3] < b[3]

\* the number of days of the calendar from the day a up to the day b,
\* counted one by one; 0 when a is not before b
WholeDays(a, b) ==
    Cardinality({ x \in (a[1]..b[1]) \X (1..12) \X (1..31) :
                    /\ x[3] <= DaysInMonth(x[1], x[2])
                    /\ ~DayBefore(x, a)
                    /\ DayBefore(x, b) })

StartsWith(s, prefix) ==
    Len(s) >= Len(prefix) /\ SubSeq(s, 1, Len(prefix)) = prefix

\* the arguments violate the schema of the tool
ViolatesSchema(a) ==
    \/ a.invoiceText = None
    \/ a.invoiceText[1] = <<>>
    \/ a.currency # None /\ a.currency[1] = <<>>
    \/ a.today # None /\ a.today[1] = <<>>
    \/ a.tone # None /\ a.tone[1] \notin {Tone_friendly, Tone_neutral, Tone_firm}

-----------------------------------------------------------------------------
(* Claims                                                                  *)

\* C1: for the invoice text of Scenario A (the lines "INVOICE #INV-1042",
\* "Due Date: 2025-11-30", "Total Due: USD 2,450.00", "Payment terms: Net 15")
\* with today = "2025-12-15", prepare returns invoiceNumber "INV-1042",
\* dueDate "2025-11-30", amount "2450.00", currency "USD", paymentTerms
\* "Net 15", daysOverdue 15 and no red flag.
C1_ScenarioA ==
    (/\ Prepared
     /\ CallArgs.invoiceText = Some(TextA)
     /\ CallArgs.currency = None
     /\ CallArgs.today = Some(TodayA))
    => /\ StrOpt(Out.extracted.invoiceNumber) = Some("INV-1042")
       /\ StrOpt(Out.extracted.dueDate) = Some("2025-11-30")
       /\ StrOpt(Out.extracted.amount) = Some("2450.00")
       /\ Str(Out.extracted.currency) = "USD"
       /\ StrOpt(Out.extracted.paymentTerms) = Some("Net 15")
       /\ Out.extracted.daysOverdue = Some(15)
       /\ Out.redFlags = <<>>

\* C2: when the extracted due date and the supplied today are both calendar
\* days (YYYY-MM-DD), daysOverdue is the number of whole days from the due
\* date to today, and 0 when the due date is today or later.
C2_DaysOverdueIsWholeDays ==
    (/\ Prepared
     /\ Out.extracted.dueDate # None
     /\ CallArgs.today # None
     /\ IsCalendarDate(Out.extracted.dueDate[1])
     /\ IsCalendarDate(CallArgs.today[1]))
    => Out.extracted.daysOverdue =
           Some(WholeDays(YMD(Out.extracted.dueDate[1]), YMD(CallArgs.today[1])))

C2_Witness ==
    /\ Prepared
    /\ Out.extracted.dueDate # None
    /\ CallArgs.today # None
    /\ IsCalendarDate(Out.extracted.dueDate[1])
    /\ IsCalendarDate(CallArgs.today[1])
    /\ DayBefore(YMD(Out.extracted.dueDate[1]), YMD(CallArgs.today[1]))
    /\ Out.extracted.daysOverdue = Some(2)

\* C3: when no due date is extracted, daysOverdue is absent and the red
\* flags contain "Due date not detected."; daysOverdue is present only with
\* an extracted due date and a reference date that parses (or the clock).
C3_NoDueDateNoDaysOverdue ==
    Prepared =>
        /\ Out.extracted.dueDate = None
              => /\ Out.extracted.daysOverdue = None
                 /\ \E k \in DOMAIN Out.redFlags :
                       Out.redFlags[k] = "Due date not detected."
        /\ Out.extracted.daysOverdue # None
              => /\ Out.extracted.dueDate # None
                 /\ CallArgs.today = None \/ DateParse(CallArgs.today[1]) # None

C3_Witness ==
    /\ Prepared
    /\ Out.extracted.dueDate = None
    /\ CallArgs.today = Some(TodayA)
    /\ Out.extracted.daysOverdue = None

\* C4: redFlags is the list of the warnings for invoice number, amount, due
\* date and payment terms, in that order, restricted to the fields that are
\* absent in extracted; a missing vendor adds nothing.
C4_RedFlagsAreTheAbsentFields ==
    Prepared =>
        LET e == Out.extracted
            order == << <<"invoiceNumber", "Invoice number not detected.">>,
                        <<"amount", "Invoice amount not detected.">>,
                        <<"dueDate", "Due date not detected.">>,
                        <<"paymentTerms", "Payment terms not detected.">> >>
            IsAbsent(p) == e[p[1]] = None
            missing == SelectSeq(order, IsAbsent)
        IN  /\ Out.redFlags = [k \in DOMAIN missing |-> missing[k][2]]
            /\ Len(Out.redFlags) <= 4

C4_Witness ==
    /\ Prepared
    /\ Out.extracted.vendor = None
    /\ Out.extracted.invoiceNumber = None
    /\ Out.extracted.amount = None
    /\ Out.extracted.dueDate = None
    /\ Out.extracted.paymentTerms = None
    /\ Len(Out.redFlags) = 4

\* C5: the currency of the result is the currency argument when one is
\* given, otherwise the currency detected in the text, otherwise "USD", in
\* upper case; the summary and the three emails use that same currency.
C5_CurrencyPrecedence ==
    Prepared =>
        LET detected == parseMoney(CallArgs.invoiceText[1]).currency
            chosen == IF CallArgs.currency # None THEN CallArgs.currency[1]
                      ELSE IF detected # None THEN detected[1]
                      ELSE <<"U","S","D">>
            cur == Out.extracted.currency
        IN  /\ cur = toUpperCase(chosen)
            /\ CallArgs.currency = Some(CurEUR) => Str(cur) = "EUR"
            /\ StartsWith(Out.followUpEmails.friendly[8], cur \o <<" ">>)
            /\ StartsWith(Out.followUpEmails.neutral[8], cur \o <<" ">>)
            /\ StartsWith(Out.followUpEmails.firm[8], cur \o <<" ">>)
            /\ Out.extracted.amount # None
                  => Out.summary[2][2] = cur \o <<" ">> \o Out.extracted.amount[1]

C5_Witness ==
    /\ Prepared
    /\ CallArgs.currency = Some(CurEUR)
    /\ parseMoney(CallArgs.invoiceText[1]).currency = Some(<<"U","S","D">>)
    /\ Str(Out.extracted.currency) = "EUR"

\* C6: extracted.currency is an upper-case 3-letter code in every result.
C6_CurrencyIsThreeLetterCode ==
    Prepared =>
        /\ Len(Out.extracted.currency) = 3
        /\ \A k \in DOMAIN Out.extracted.currency :
              Out.extracted.currency[k] \in Range(UpperLetters)

\* C7: extracted.dueDate is absent or a day of the calendar written
\* YYYY-MM-DD; a date-shaped token that is no real date is not reported.
C7_DueDateIsCalendarDate ==
    Prepared =>
        \/ Out.extracted.dueDate = None
        \/ IsCalendarDate(Out.extracted.dueDate[1])

\* C8: a tools/call of invoicechaser_prepare whose arguments violate the
\* schema is answered (HTTP 200) with a JSON-RPC error of code -32602 and no
\* result, and the engine is not run.
C8_SchemaViolationIsRejected ==
    (Answered /\ ViolatesSchema(CallArgs))
    => /\ resp.status = 200
       /\ DOMAIN resp.body = {"jsonrpc", "id", "error"}
       /\ resp.body.error.code = -32602
       /\ ~engineRan

C8_Witness ==
    /\ Answered
    /\ CallArgs.invoiceText # None /\ CallArgs.invoiceText[1] # <<>>
    /\ CallArgs.tone = Some(<<"a","n","g","r","y">>)
    /\ resp.body.error.code = -32602

\* C9: a tools/call of invoicechaser_prepare whose arguments pass the
\* schema is answered with a result that has the five keys summary,
\* extracted, followUpEmails, nextSteps and redFlags; a today that does not
\* parse only leaves daysOverdue absent.
C9_AcceptedCallReturnsFiveKeys ==
    (Answered /\ ~ViolatesSchema(CallArgs))
    => /\ Prepared
       /\ engineRan
       /\ DOMAIN Out =
              {"summary", "extracted", "followUpEmails", "nextSteps", "redFlags"}
       /\ (CallArgs.today # None /\ DateParse(CallArgs.today[1]) = None)
              => Out.extracted.daysOverdue = None

C9_Witness ==
    /\ Prepared
    /\ CallArgs.today = Some(TodayBad)
    /\ Out.extracted.dueDate = Some(<<"2","0","2","5","-","1","1","-","3","0">>)
    /\ Out.extracted.daysOverdue = None
    /\ DOMAIN Out =
           {"summary", "extracted", "followUpEmails", "nextSteps", "redFlags"}

\* C10: the result does not depend on the tone argument: the same call
\* with any other tone, or none, at the same clock reading has the same
\* result, and followUpEmails has the three bodies friendly, neutral, firm.
C10_ToneHasNoInfluence ==
    Prepared =>
        /\ \A t \in Tones \ {CallArgs.tone} :
              toolInvoicechaserPrepare([CallArgs EXCEPT !.tone = t],
                                       ClockDate(clock)) = Out
        /\ DOMAIN Out.followUpEmails = {"friendly", "neutral", "firm"}

C10_Witness ==
    /\ Prepared
    /\ CallArgs.tone = Some(Tone_firm)
    /\ DOMAIN Out.followUpEmails = {"friendly", "neutral", "firm"}
    /\ Out.extracted.daysOverdue # None

-----------------------------------------------------------------------------
(* Observations of the running server                                      *)

\* the last step was a POST /api
IsPost == req.kind = "post"

\* the last step was a GET /api
IsGet == req.kind = "get"

\* the JSON-RPC request that handler passes to handleMcpRequest for the
\* body b of a POST whose JSON parsed
Parsed(b) ==
    IF b.kind = "null" THEN [id |-> None, method |-> None, params |-> None]
    ELSE [id |-> b.id, method |-> b.method, params |-> b.params]

\* the body b is an initialize request
IsInitialize(b) == b.kind = "obj" /\ b.method = Some("initialize")

\* what the server answers to the body of the last request when it has
\* just started: no session, no stream, first reading of the clock
FreshAnswer == handleMcpRequest(Parsed(req.body), <<>>, 0).response

\* the streams attached to a session
Attached == { c \in DOMAIN conns : sessions[conns[c].session].sse = Some(c) }

\* the text " (N days overdue)" for the number of days n
OverdueText(n) ==
    LET digit == [d \in 0..9 |-> DigitChars[d + 1]]
        f[k \in 0..n] == IF k < 10 THEN <<digit[k]>>
                         ELSE Append(f[k \div 10], digit[k % 10])
    IN  <<" ", "(">> \o f[n]
            \o <<" ","d","a","y","s"," ","o","v","e","r","d","u","e",")">>

\* the character sequence s contains the character sequence w
Contains(s, w) ==
    \E i \in 1..(Len(s) - Len(w) + 1) : SubSeq(s, i, i + Len(w) - 1) = w

\* positions of the interpolated values of an email other than the overdue
\* suffix: invoice, vendor, invoice, amount, due date
ValuePositions == {2, 4, 6, 8, 10}

\* the part of an email that follows the due date
OverdueOf(email) == email[11]

-----------------------------------------------------------------------------
(* Claims about the running server and the emails                          *)

\* C11 as stated: every accepted call of prepare, with or without today,
\* has the answer that the server gives to the same call when it has just
\* started, whatever the clock reads and whatever requests came before.
C11_NoClockReadingInfluences ==
    Prepared => resp.body = FreshAnswer

\* C11: a call of prepare that supplies today has the answer that the
\* server gives to the same call when it has just started; so two calls
\* with identical arguments have identical output at any two moments, with
\* any sessions, streams and requests in between.  (A call without today
\* reads the clock for the reference date.)
C11_PrepareIsIdempotentGivenToday ==
    (Prepared /\ CallArgs.today # None) => resp.body = FreshAnswer

C11_Witness ==
    /\ Prepared
    /\ CallArgs.today = Some(TodayA)
    /\ clock > 0
    /\ Cardinality(DOMAIN sessions) = 2
    /\ Attached # {}
    /\ Out.extracted.daysOverdue = Some(15)
    /\ resp.body = FreshAnswer

\* C12: a POST adds a session only when it is initialize (exactly one) and
\* never removes one; a POST of tools/call or tools/list leaves the set of
\* sessions as it is; the only field of an existing session that a POST
\* changes is lastSeenMs of the session named by MCP-Session-Id; a session
\* holds an id, two clock readings and its stream, nothing of the request
\* body.  No other step adds or removes a session.
C12_CallsLeaveTheRegistry ==
    [][ /\ DOMAIN sessions' # DOMAIN sessions
           => req'.kind = "post" /\ IsInitialize(req'.body)
        /\ req'.kind = "post" =>
              /\ DOMAIN sessions \subseteq DOMAIN sessions'
              /\ Cardinality(DOMAIN sessions') =
                     Cardinality(DOMAIN sessions)
                        + (IF IsInitialize(req'.body) THEN 1 ELSE 0)
              /\ \A k \in DOMAIN sessions :
                    /\ sessions'[k].id = sessions[k].id
                    /\ sessions'[k].createdAtIso = sessions[k].createdAtIso
                    /\ sessions'[k].sse = sessions[k].sse
                    /\ sessions'[k].lastSeenMs =
                           IF req'.sid = Some(k) /\ req'.body.kind # "bad"
                           THEN clock ELSE sessions[k].lastSeenMs
              /\ \A k \in DOMAIN sessions' :
                    /\ DOMAIN sessions'[k] =
                           {"id", "createdAtIso", "lastSeenMs", "sse"}
                    /\ sessions'[k].id = k
                    /\ sessions'[k].createdAtIso \in 0..clock
                    /\ sessions'[k].lastSeenMs \in 0..clock
                    /\ sessions'[k].sse \in
                           {None} \cup {Some(c) : c \in DOMAIN conns}
      ]_vars

C12_Witness ==
    /\ Prepared
    /\ engineRan
    /\ req.sid # None
    /\ req.sid[1] \in DOMAIN sessions
    /\ sessions[req.sid[1]].lastSeenMs = clock
    /\ \E k \in DOMAIN sessions : k # req.sid[1] /\ sessions[k].lastSeenMs < clock

\* C13: in each of the three emails the text " (N days overdue)" follows
\* the due date exactly when daysOverdue is present and greater than 0, with
\* N the decimal daysOverdue; otherwise nothing follows the due date; and no
\* other interpolated value of the email holds the suffix.
C13_OverdueSuffixIffPositive ==
    Prepared =>
        \A tone \in {"friendly", "neutral", "firm"} :
            LET email == Out.followUpEmails[tone]
                d == Out.extracted.daysOverdue
            IN  /\ Len(email) = 12
                /\ OverdueOf(email) =
                       IF d # None /\ d[1] > 0 THEN OverdueText(d[1]) ELSE <<>>
                /\ \A p \in ValuePositions :
                       ~Contains(email[p],
                                 <<" ","d","a","y","s"," ","o","v","e","r","d","u","e",")">>)

C13_Witness ==
    /\ Prepared
    /\ Out.extracted.daysOverdue = Some(15)
    /\ OverdueOf(Out.followUpEmails.firm) =
           <<" ","(","1","5"," ","d","a","y","s"," ","o","v","e","r","d","u","e",")">>
    /\ OverdueOf(Out.followUpEmails.friendly) =
           OverdueOf(Out.followUpEmails.firm)
    /\ OverdueOf(Out.followUpEmails.neutral) =
           OverdueOf(Out.followUpEmails.firm)

\* C14: a GET /api attaches a stream exactly when its Accept header has
\* text/event-stream and its MCP-Session-Id names a session of the
\* registry; then the session gets the new stream, with a heartbeat timer.
\* Every other GET is answered 406 with the response ended at once: no
\* stream, no timer, and no session changed.
C14_GetAttachesOrAnswers406 ==
    [][ req'.kind = "get" =>
          IF /\ req'.accept
             /\ req'.sid # None
             /\ req'.sid[1] \in DOMAIN sessions
          THEN /\ resp'.status = 200
               /\ Len(conns') = Len(conns) + 1
               /\ conns'[Len(conns')].open
               /\ conns'[Len(conns')].heartbeat
               /\ sessions'[req'.sid[1]].sse = Some(Len(conns'))
               /\ wire' = << Event(Len(conns'), "mcp:connected", None) >>
          ELSE /\ resp'.status = 406
               /\ wire' = << Response(406) >>
               /\ sseOut' = <<>>
               /\ conns' = conns
               /\ sessions' = sessions
      ]_vars

C14_Witness ==
    /\ IsGet
    /\ req.accept
    /\ req.sid # None
    /\ req.sid[1] \notin DOMAIN sessions
    /\ resp.status = 406
    /\ Attached # {}
    /\ \E k \in DOMAIN sessions : sessions[k].lastSeenMs < clock

\* C15: the stream of a session changes only in two ways: a GET for the
\* session attaches a new stream, or the cleanup of the stream that is
\* attached runs after its connection closed, which clears it.  A run of
\* the cleanup of a stream clears the attachment of its session only when
\* that attachment is the stream itself, and stops its heartbeat; it runs
\* at most three times.
C15_CloseDetachesOnlyItself ==
    [][ /\ \A s \in DOMAIN sessions :
              sessions'[s].sse # sessions[s].sse =>
                 \/ /\ req'.kind = "get"
                    /\ req'.sid = Some(s)
                    /\ Len(conns') = Len(conns) + 1
                    /\ sessions'[s].sse = Some(Len(conns'))
                 \/ /\ sessions[s].sse # None
                    /\ ~conns[sessions[s].sse[1]].open
                    /\ conns'[sessions[s].sse[1]].cleanups =
                           conns[sessions[s].sse[1]].cleanups + 1
                    /\ sessions'[s].sse = None
        /\ \A c \in DOMAIN conns :
              conns'[c].cleanups # conns[c].cleanups =>
                 /\ conns'[c].cleanups = conns[c].cleanups + 1
                 /\ conns'[c].cleanups <= CleanupEvents
                 /\ ~conns'[c].heartbeat
                 /\ \A s \in DOMAIN sessions :
                       sessions'[s].sse =
                           IF sessions[s].sse = Some(c) THEN None
                           ELSE sessions[s].sse
      ]_vars

C15_Witness ==
    \E older \in DOMAIN conns, newer \in DOMAIN conns :
        /\ older < newer
        /\ conns[older].session = conns[newer].session
        /\ conns[older].cleanups = CleanupEvents
        /\ conns[newer].open
        /\ sessions[conns[newer].session].sse = Some(newer)

\* C16: a POST whose body parsed is answered 200, and when its
\* MCP-Session-Id names a session that has a stream attached which has not
\* ended, one mcp:message event with the id of the request is written to
\* that stream before the response; in every other case nothing is written
\* to any stream.  A POST whose body did not parse is answered 400 and
\* writes to no stream.  Only a POST writes mcp:message.
C16_OneNotificationToTheAttachedStream ==
    /\ IsPost /\ req.body.kind = "bad" =>
          /\ resp.status = 400
          /\ wire = << Response(400) >>
    /\ IsPost /\ req.body.kind # "bad" =>
          /\ resp.status = 200
          /\ IF /\ req.sid # None
                /\ req.sid[1] \in DOMAIN sessions
                /\ sessions[req.sid[1]].sse # None
                /\ ~conns[sessions[req.sid[1]].sse[1]].writableEnded
             THEN wire = << [conn |-> sessions[req.sid[1]].sse[1],
                             event |-> "mcp:message",
                             id |-> Parsed(req.body).id],
                            Response(200) >>
             ELSE wire = << Response(200) >>
    /\ \A i \in DOMAIN sseOut :
          sseOut[i].event = "mcp:message" =>
             /\ IsPost
             /\ sseOut[i].conn \in Attached
             /\ req.sid = Some(conns[sseOut[i].conn].session)

C16_Witness ==
    /\ IsPost
    /\ Len(wire) = 2
    /\ wire[1].event = "mcp:message"
    /\ wire[2] = Response(200)
    /\ req.sid = Some(conns[wire[1].conn].session)
    /\ Cardinality(Attached) = 2

====
